---- MODULE Spec2Model ----
(***************************************************************************)
(* odinweb: operation descriptors (odinweb/decorators.py), the legacy      *)
(* route decorator (odinweb_core/decorators.py) and the Swagger container  *)
(* (odinweb/swagger.py).                                                   *)
(*                                                                         *)
(* Python values are modelled by strings and records; None is the string   *)
(* "None".  Mutable sets live in a heap (the sequence `sets`) so that two   *)
(* references to one Python set object are two equal indices.              *)
(***************************************************************************)
EXTENDS Integers, Sequences, FiniteSets, TLC

VARIABLES
    operation_count,  \* Operation._operation_count (class attribute)
    ops,              \* the descriptors constructed so far, in construction order
    sets,             \* heap of Python set objects: index -> set of entries
    cb_responses,     \* callback -> heap index of its `responses` attribute, 0 if it has none
    cb_parameters,    \* callback -> heap index of its `parameters` attribute, 0 if it has none
    route_count,      \* odinweb_core.decorators._route_count (module global)
    routes,           \* RouteDefinition.route_number of each route() call, in call order
    last,             \* what the last operation did and returned
    inbox,            \* the request waiting to be executed, and what the callback will return
    static,           \* the SwaggerSpec, the file name asked of it and load_static's outcome
    swagger           \* the SwaggerSpec's parent and what parse_operations / get_swagger made

vars == <<operation_count, ops, sets, cb_responses, cb_parameters, route_count, routes, last, inbox, static,
                 swagger>>

----------------------------------------------------------------------------
(* Bounds *)

MaxOps == 2        \* descriptors constructed in one registration run
MaxRoutes == 3     \* legacy route() calls in one registration run

----------------------------------------------------------------------------
(* The universe: callbacks, container instances, resources *)

None == "None"

\* Callbacks handed to the constructors.  "plain" carries no metadata,
\* "documented" carries a `responses` set and a `parameters` set (as left by
\* doc decorators).
Callbacks == {"plain", "documented"}

\* Container instances a descriptor can be bound to, by the attributes they have.
Instances == {"api1", "api2", "api3"}

\* The hook methods each instance's class defines.
InstanceAttrs(instance) ==
    CASE instance = "api1" -> {"pre_dispatch", "post_dispatch"}
      [] instance = "api2" -> {"pre_dispatch", "post_dispatch"}
      [] OTHER             -> {}

\* instance.resource (every container has the attribute; api3 leaves it None)
InstanceResource(instance) ==
    CASE instance = "api1" -> "R1"
      [] instance = "api2" -> "R2"
      [] OTHER             -> None

\* A hook is a bound method: the object it belongs to and the attribute it is.
NoHook == [owner |-> None, name |-> None]

\* getattr(obj, name, None) for the hook attributes of a container instance
GetAttrHook(instance, name) ==
    IF name \in InstanceAttrs(instance) THEN [owner |-> instance, name |-> name] ELSE NoHook

----------------------------------------------------------------------------
(* Response entries and the set they are kept in *)

Resp(status, description) == [status |-> status, description |-> description]

DefaultResponse == Resp("default", "Unhandled error")

\* set.add(entry): Response hashes and compares by status code, so an entry
\* whose status is already in the set is not added.
SetAdd(S, entry) ==
    IF \E x \in S : x.status = entry.status THEN S ELSE S \cup {entry}

\* Parameter entries, and set.add of one
Param(in_, name) == [in_ |-> in_, name |-> name]

ParamAdd(S, entry) == S \cup {entry}

----------------------------------------------------------------------------
(* Operation descriptors *)

Kinds == {"Operation", "ListOperation", "ResourceOperation"}

HookNames == {"pre_dispatch", "post_dispatch"}

\* getattr(self, name, None) on the descriptor itself: `own` is the set of hook
\* methods the descriptor's class defines.
OwnHook(own, name) ==
    IF name \in own THEN [owner |-> "self", name |-> name] ELSE NoHook

\* Constructor arguments: the class, the callback, url_path, methods, the explicit
\* resource and the hook methods the class defines.
\* An optional integer is the empty set (None) or a singleton.
Paging(default_offset, default_limit, max_offset, max_limit) ==
    [default_offset |-> default_offset, default_limit |-> default_limit,
     max_offset |-> max_offset, max_limit |-> max_limit]

\* ListOperation's class attributes
DefaultPaging == Paging(0, 50, {}, {})

Args(kind, callback, url_path, methods, resource, own, paging) ==
    [kind |-> kind, callback |-> callback, url_path |-> url_path, methods |-> methods,
     resource |-> resource, own |-> own, paging |-> paging]

\* The object super().__new__(cls) returns: no attribute set yet.
Blank == [kind |-> None, callback |-> None, url_path |-> None, methods |-> <<>>,
          _resource |-> None, sort_key |-> -1, binding |-> None,
          _pre_dispatch |-> NoHook, _post_dispatch |-> NoHook,
          responses |-> 0, parameters |-> 0, resource |-> "unset",
          paging |-> DefaultPaging]

\* (mutant: the counter is read but not advanced)
NextCountStuck(count) == count

\* Operation._operation_count += 1
NextCount(count) == count + 1

\* (mutant: the default response is added only when no response is declared)
AddDefaultIfEmpty(S) == IF S = {} THEN {DefaultResponse} ELSE S

\* self.responses.add(DefaultResponse('Unhandled error', Error))
AddDefault(S) == SetAdd(S, DefaultResponse)

\* Operation.__init__ run once on `self`, from the interpreter state
\* st = [count, sets]; yields the new self, counter and heap.
\* `self.responses = set()` allocates a heap cell; a cell only this descriptor
\* referenced (left by an earlier __init__ on the same object) is reused, emptied.
\* __init__ does not touch the cached `resource` attribute.
Operation__init__(st, self, args) ==
    LET cbr     == cb_responses[args.callback]
        private == self.responses # 0 /\ self.responses # cbr
        heapR   == IF cbr # 0 THEN st.sets
                   ELSE IF private THEN [st.sets EXCEPT ![self.responses] = {}]
                   ELSE Append(st.sets, {})
        rid     == IF cbr # 0 THEN cbr
                   ELSE IF private THEN self.responses
                   ELSE Len(heapR)
        cbp     == cb_parameters[args.callback]
        privateP == self.parameters # 0 /\ self.parameters # cbp
        heap0   == IF cbp # 0 THEN heapR
                   ELSE IF privateP THEN [heapR EXCEPT ![self.parameters] = {}]
                   ELSE Append(heapR, {})
        pid     == IF cbp # 0 THEN cbp
                   ELSE IF privateP THEN self.parameters
                   ELSE Len(heap0)
    IN  [self  |-> [self EXCEPT
                      !.kind = args.kind,
                      !.callback = args.callback,
                      !.url_path = args.url_path,
                      !.methods = args.methods,
                      !._resource = args.resource,
                      !.sort_key = st.count,
                      !.binding = None,
                      !._pre_dispatch = OwnHook(args.own, "pre_dispatch"),
                      !._post_dispatch = OwnHook(args.own, "post_dispatch"),
                      !.responses = rid,
                      !.parameters = pid],
         count |-> NextCount(st.count),
         sets  |-> [heap0 EXCEPT ![rid] = AddDefault(@)]]

\* Operation.__new__: inner(callback) creates the object and runs __init__ on it.
\* When the class is called with the callback (direct), __new__ returns an
\* instance of the class, so the interpreter's type call runs __init__ a second
\* time with the same arguments.  When it is called without one (the decorator
\* form with arguments), __new__ returns `inner` and __init__ runs once, when
\* the decorator is applied.
\* The __init__ of the descriptor's class: ListOperation.__init__ takes its paging
\* keywords and then runs Operation.__init__; ResourceOperation.__init__ and
\* Operation.__init__ take none.
\* The parameters a descriptor class adds after Operation.__init__
ClassParameters(kind) ==
    CASE kind = "ListOperation" ->
            << Param("query", "offset"), Param("query", "limit"), Param("query", "bare") >>
      [] kind = "ResourceOperation" -> << Param("body", "body") >>
      [] OTHER -> <<>>

\* self.parameters.add(entry) for each entry
RECURSIVE AddParams(_, _)
AddParams(S, entries) ==
    IF entries = <<>> THEN S ELSE AddParams(ParamAdd(S, Head(entries)), Tail(entries))

Descriptor__init__(st, self, args) ==
    LET base == IF args.kind = "ListOperation"
                THEN Operation__init__(st, [self EXCEPT !.paging = args.paging], args)
                ELSE Operation__init__(st, self, args)
    IN  [base EXCEPT !.sets[base.self.parameters] = AddParams(@, ClassParameters(args.kind))]

Operation__new__(st, args, direct) ==
    LET once == Descriptor__init__(st, Blank, args)
    IN  IF direct
        THEN Descriptor__init__([count |-> once.count, sets |-> once.sets], once.self, args)
        ELSE once

\* (mutant: the last entry of a shortcut is not added)
RECURSIVE AddAllButLast(_, _)
AddAllButLast(S, entries) ==
    IF Len(entries) <= 1 THEN S
    ELSE AddAllButLast(SetAdd(S, Head(entries)), Tail(entries))

\* op.responses.add(entry) for each entry of a shortcut
RECURSIVE AddAll(_, _)
AddAll(S, entries) ==
    IF entries = <<>> THEN S ELSE AddAll(SetAdd(S, Head(entries)), Tail(entries))

Shortcuts == {"listing", "create", "detail", "update", "patch", "delete"}

ShortcutKind(name) ==
    CASE name = "listing" -> "ListOperation"
      [] name \in {"create", "update", "patch"} -> "ResourceOperation"
      [] OTHER -> "Operation"

ShortcutPath(name) == IF name \in {"listing", "create"} THEN "NoPath" ELSE "resource_id"

ShortcutMethod(name) ==
    CASE name = "listing" -> "GET"
      [] name = "create"  -> "POST"
      [] name = "detail"  -> "GET"
      [] name = "update"  -> "PUT"
      [] name = "patch"   -> "PATCH"
      [] OTHER            -> "DELETE"

ShortcutResponses(name) ==
    CASE name = "listing" -> << Resp("200", "Listing of resources") >>
      [] name = "create"  -> << Resp("201", "{name} has been created"),
                                Resp("400", "Validation failed.") >>
      [] name = "detail"  -> << Resp("200", "Get a {name}"), Resp("404", "Not found") >>
      [] name = "update"  -> << Resp("204", "{name} has been updated."),
                                Resp("400", "Validation failed."), Resp("404", "Not found") >>
      [] name = "patch"   -> << Resp("200", "{name} has been patched."),
                                Resp("400", "Validation failed."), Resp("404", "Not found") >>
      [] OTHER            -> << Resp("204", "{name} has been deleted."),
                                Resp("404", "Not found") >>


----------------------------------------------------------------------------
(* Binding, the cached resource, documentation *)

\* Operation.bind_to_instance
bind_to_instance(self, instance) ==
    [self EXCEPT
       !.binding = instance,
       !._pre_dispatch = IF @ = NoHook THEN GetAttrHook(instance, "pre_dispatch") ELSE @,
       !._post_dispatch = IF @ = NoHook THEN GetAttrHook(instance, "pos_dispatch") ELSE @]

\* The body of the `resource` property
resource_fget(self) ==
    IF self._resource # None THEN self._resource
    ELSE IF self.binding # None THEN InstanceResource(self.binding)
    ELSE None

\* (mutant: a plain property, computed on every read)
ReadResourceUncached(self) == [self EXCEPT !.resource = resource_fget(self)]

\* Reading self.resource: lazy_property runs the body on the first read and
\* stores what it returned as the instance attribute; later reads find the attribute.
ReadResource(self) ==
    IF self.resource = "unset" THEN [self EXCEPT !.resource = resource_fget(self)] ELSE self

\* The `responses` entry of to_doc(): a dict keyed by status code
DocResponses(S) ==
    [status \in {r.status : r \in S} |-> (CHOOSE r \in S : r.status = status).description]

NoDoc == [status \in {} |-> ""]

----------------------------------------------------------------------------
(* Requests, callback results and execution *)

The(S) == CHOOSE x \in S : TRUE

\* request.GET: offset and limit are optional integers (already numeric text),
\* bare is a token or "absent".
Request(offset, limit, bare) == [offset |-> offset, limit |-> limit, bare |-> bare]

BareTokens == {"absent", "true", "TRUE", "1", "yes", "false", "0", "no", ""}

Lower(token) == IF token = "TRUE" THEN "true" ELSE token

\* utils.to_bool: case-insensitive match against the truthy tokens; the default
\* False of request.GET.get('bare', False) is falsy.
to_bool(token) == token # "absent" /\ Lower(token) \in {"true", "1", "yes"}

\* What a callback can return, by the name of the object: None, a list, a
\* 2-tuple (list, count) and a 3-tuple.
CallbackResults == {None, "xs", "(xs,10)", "(a,b,c)"}

IsTuple2(result) == result = "(xs,10)"
First(result) == "xs"
Second(result) == "10"

\* The value an execute returns: a plain object, or a Listing envelope
Plain(result) ==
    [listing |-> FALSE, results |-> result, limit |-> 0, offset |-> 0, total_count |-> "-"]

Listing(results, limit, offset, total_count) ==
    [listing |-> TRUE, results |-> results, limit |-> limit, offset |-> offset,
     total_count |-> total_count]

\* One step of a dispatch: a hook or the callback being invoked, with what it received.
\* For the callback, owner is its first argument (the binding, None when unbound).
Event(ev, owner, marks, item, offset, limit, response) ==
    [ev |-> ev, owner |-> owner, marks |-> marks, item |-> item,
     offset |-> offset, limit |-> limit, response |-> response]

\* Python truthiness of an optional integer
Truthy(opt) == opt # {} /\ The(opt) # 0

\* ListOperation.execute, the offset it puts in path_args
ClampOffset(paging, q) ==
    LET offset == IF q = {} THEN paging.default_offset ELSE The(q)
    IN  IF offset < 0 THEN 0
        ELSE IF Truthy(paging.max_offset) /\ offset > The(paging.max_offset)
             THEN The(paging.max_offset)
        ELSE offset

\* ListOperation.execute, the limit it puts in path_args
ClampLimit(paging, q) ==
    LET limit == IF q = {} THEN paging.default_limit ELSE The(q)
    IN  IF limit < 1 THEN 1
        ELSE IF Truthy(paging.max_limit) /\ limit > The(paging.max_limit)
             THEN The(paging.max_limit)
        ELSE limit

\* Operation.execute: the callback is called with the binding first when bound.
\* `ret` is what the callback returns.
Operation_execute(self, marks, item, offset, limit, ret) ==
    [self |-> self,
     trace |-> << Event("callback", self.binding, marks, item, offset, limit, Plain("-")) >>,
     out |-> Plain(ret)]

\* (mutant: the bare flag is ignored)
ListResultAlwaysWrapped(result, bare, limit, offset) ==
    LET items == IF IsTuple2(result) THEN First(result) ELSE result
        total_count == IF IsTuple2(result) THEN Second(result) ELSE None
    IN  IF result # None THEN Listing(items, limit, offset, total_count) ELSE Plain(None)

\* ListOperation.execute, what it makes of the callback's result; a None result
\* falls off the end of the method, which returns None.
ListResult(result, bare, limit, offset) ==
    LET items == IF IsTuple2(result) THEN First(result) ELSE result
        total_count == IF IsTuple2(result) THEN Second(result) ELSE None
    IN  IF result # None
        THEN IF bare THEN Plain(items) ELSE Listing(items, limit, offset, total_count)
        ELSE Plain(None)

\* ListOperation.execute
ListOperation_execute(self, request, marks, ret) ==
    LET offset == ClampOffset(self.paging, request.offset)
        limit  == ClampLimit(self.paging, request.limit)
        bare   == to_bool(request.bare)
        base   == Operation_execute(self, marks, "-", {offset}, {limit}, ret)
    IN  [base EXCEPT !.out = ListResult(base.out.results, bare, limit, offset)]

\* ResourceOperation.execute: get_resource(request, self.resource) yields an
\* instance of the resource, named here by its type.
ResourceOperation_execute(self, marks, ret) ==
    LET self1 == ReadResource(self)
        item  == IF self1.resource # None THEN self1.resource ELSE None
    IN  Operation_execute(self1, marks, item, {}, {}, ret)

\* self.execute(...), by the descriptor's class
execute(self, request, marks, ret) ==
    CASE self.kind = "ListOperation" -> ListOperation_execute(self, request, marks, ret)
      [] self.kind = "ResourceOperation" -> ResourceOperation_execute(self, marks, ret)
      [] OTHER -> Operation_execute(self, marks, "-", {}, {}, ret)

\* A hook is any callable: the pre hook may change path_args in place (it leaves
\* its owner's mark), the post hook returns a response of its own making (the one
\* it received, stamped by its owner).
PreDispatchMarks(hook, marks) == Append(marks, hook.owner)
PostDispatchReturn(hook, response) == [out |-> response, via |-> <<hook.owner>>]

\* (mutant: the post hook is skipped when execute returned None)
RunsPostIfResponse(self, response) ==
    self._post_dispatch # NoHook /\ response.results # None

\* `if self._post_dispatch:` in Operation.__call__
RunsPost(self, response) == self._post_dispatch # NoHook

\* `if self._pre_dispatch:` in Operation.__call__
RunsPre(self) == self._pre_dispatch # NoHook

\* Operation.__call__
Operation__call__(self, request, ret) ==
    LET pre   == IF RunsPre(self)
                 THEN << Event("pre_dispatch", self._pre_dispatch.owner, <<>>, "-", {}, {},
                               Plain("-")) >>
                 ELSE <<>>
        marks == IF RunsPre(self)
                 THEN PreDispatchMarks(self._pre_dispatch, <<>>) ELSE <<>>
        ex    == execute(self, request, marks, ret)
        post  == IF RunsPost(self, ex.out)
                 THEN << Event("post_dispatch", self._post_dispatch.owner, marks, "-", {}, {},
                               ex.out) >>
                 ELSE <<>>
    IN  [self |-> ex.self,
         trace |-> pre \o ex.trace \o post,
         result |-> IF RunsPost(self, ex.out)
                    THEN PostDispatchReturn(self._post_dispatch, ex.out)
                    ELSE [out |-> ex.out, via |-> <<>>]]

NoLast == [op |-> "none", i |-> 0, trace |-> <<>>, value |-> None, out |-> Plain("-"),
           via |-> <<>>, doc |-> NoDoc]

----------------------------------------------------------------------------
(* SwaggerSpec.load_static *)

\* Text is a sequence of characters; a path is a sequence of segments.
Sep == <<"/">>
DotDot == <<".", ".">>
Dot == <<".">>
PackageDir == << <<"p">> >>          \* os.path.dirname(__file__), absolute
StaticName == <<"s">>                \* the directory name 'static'
SiblingName == <<"s", "2">>          \* a directory whose name starts with it
FileSeg == <<"f">>                   \* every directory holds a file of this name

Segments == {DotDot, Dot, StaticName, SiblingName, FileSeg}

\* A file name: relative or absolute, and its segments
FileName(absolute, segs) == [absolute |-> absolute, segs |-> segs]

\* os.path.join(static_path, file_name): an absolute second part replaces the first
PathJoin(base, file_name) ==
    IF file_name.absolute THEN file_name.segs ELSE base \o file_name.segs

\* os.path.normpath of an absolute path: "." is dropped, ".." removes the
\* segment before it (nothing at the root)
RECURSIVE NormPath(_, _)
NormPath(done, todo) ==
    IF todo = <<>> THEN done
    ELSE LET seg == Head(todo)
         IN  IF seg = Dot THEN NormPath(done, Tail(todo))
             ELSE IF seg = DotDot
                  THEN NormPath(IF done = <<>> THEN done ELSE SubSeq(done, 1, Len(done) - 1),
                                Tail(todo))
             ELSE NormPath(Append(done, seg), Tail(todo))

\* os.path.abspath of an absolute path
AbsPath(segs) == NormPath(<<>>, segs)

\* The text of an absolute path
RECURSIVE Render(_)
Render(segs) ==
    IF segs = <<>> THEN <<>> ELSE Sep \o Head(segs) \o Render(Tail(segs))

PathText(segs) == IF segs = <<>> THEN Sep ELSE Render(segs)

\* str.startswith
StartsWith(text, prefix) ==
    Len(text) >= Len(prefix) /\ SubSeq(text, 1, Len(prefix)) = prefix

\* open(file_path, 'rb').read() succeeds on a file and raises OSError on a directory
IsFile(segs) == segs # <<>> /\ segs[Len(segs)] = FileSeg

StaticPath == Append(PackageDir, StaticName)

\* SwaggerSpec.load_static: the outcome is a 404 HttpError or the file read
load_static(enable_ui, file_name) ==
    IF ~enable_ui THEN [status |-> "404", read |-> <<>>]
    ELSE LET file_path == AbsPath(PathJoin(StaticPath, file_name))
         IN  IF ~StartsWith(PathText(file_path), PathText(StaticPath))
             THEN [status |-> "404", read |-> <<>>]
             ELSE IF IsFile(file_path) THEN [status |-> "200", read |-> <<file_path>>]
             ELSE [status |-> "404", read |-> <<>>]

NoStatic == [enable_ui |-> FALSE, file_name |-> FileName(FALSE, <<>>), called |-> FALSE,
             status |-> "-", read |-> <<>>]

----------------------------------------------------------------------------
(* SwaggerSpec.parse_operations and get_swagger *)

\* getmeta(resource).resource_name: R0 and R1 are two resource types of one name
ResourceName(resource) ==
    CASE resource = "R2" -> "Other"
      [] OTHER -> "Item"

\* resource_definition(resource): the schema object listing the type's fields
resource_definition(resource) == [type |-> "object", properties |-> resource]

\* dict[key] = value
DictSet(d, key, value) ==
    [k \in DOMAIN d \cup {key} |-> IF k = key THEN value ELSE d[k]]

\* The definitions parse_operations starts from
SeedDefinitions ==
    [name \in {"Error", "Listing"} |-> resource_definition(name)]

\* (mutant: a name already defined is kept)
AddDefinitionFirstWins(defs, resource) ==
    IF resource = None \/ ResourceName(resource) \in DOMAIN defs THEN defs
    ELSE DictSet(defs, ResourceName(resource), resource_definition(resource))

\* `if operation.resource: resource_defs[name] = resource_definition(...)`
AddDefinition(defs, resource) ==
    IF resource = None THEN defs
    ELSE DictSet(defs, ResourceName(resource), resource_definition(resource))

\* A path is a sequence of segments: literals and PathNode placeholders
Literal(name) == [node |-> FALSE, name |-> name]
PathNode(name) == [node |-> TRUE, name |-> name]

\* path[1:]
Strip(path) == IF path = <<>> THEN <<>> ELSE Tail(path)

\* str(path): the segments joined by "/", a placeholder written {name}
RECURSIVE UrlPathStr(_)
UrlPathStr(path) ==
    IF path = <<>> THEN <<>>
    ELSE LET seg == Head(path)
         IN  <<"/">> \o (IF seg.node THEN <<"{", seg.name, "}">> ELSE <<seg.name>>)
                     \o UrlPathStr(Tail(path))

\* SwaggerSpec.generate_parameters: one entry per placeholder of the path
RECURSIVE generate_parameters(_)
generate_parameters(path) ==
    IF path = <<>> THEN <<>>
    ELSE (IF Head(path).node THEN << Head(path).name >> ELSE <<>>)
         \o generate_parameters(Tail(path))

\* method.value.lower()
MethodLower(method) ==
    CASE method = "GET" -> "get"
      [] method = "POST" -> "post"
      [] method = "PUT" -> "put"
      [] method = "PATCH" -> "patch"
      [] OTHER -> "delete"

\* Operation.to_doc of a descriptor whose resource has been read
to_doc(self, heap) ==
    [operationId |-> self.callback, resource |-> self.resource,
     parameters |-> heap[self.parameters],
     responses |-> DocResponses(heap[self.responses])]

NoPathSpec == [parameters |-> <<>>, methods |-> [m \in {} |-> 0]]

\* An OrderedDict: the keys in insertion order and the value of each
NoPaths == [order |-> <<>>, spec |-> [k \in {} |-> 0]]

\* (mutant: paths[str(path)] = {} on every traversal of the path)
SetFresh(paths, key) ==
    [order |-> IF key \in DOMAIN paths.spec THEN paths.order ELSE Append(paths.order, key),
     spec |-> DictSet(paths.spec, key, NoPathSpec)]

\* paths.setdefault(str(path), {})
SetDefault(paths, key) ==
    IF key \in DOMAIN paths.spec THEN paths
    ELSE [order |-> Append(paths.order, key), spec |-> DictSet(paths.spec, key, NoPathSpec)]

\* `for method in operation.methods: path_spec[method.value.lower()] = operation.to_doc()`
RECURSIVE AddMethods(_, _, _)
AddMethods(methods, todo, doc) ==
    IF todo = <<>> THEN methods
    ELSE AddMethods(DictSet(methods, MethodLower(Head(todo)), doc), Tail(todo), doc)

\* The body of the loop of parse_operations for one (path, operation) pair
ParseStep(acc, heap, item) ==
    LET path       == Strip(item.path)
        operation  == ReadResource(acc.ops[item.op])
        defs       == AddDefinition(acc.definitions, operation.resource)
        key        == UrlPathStr(path)
        paths      == SetDefault(acc.paths, key)
        parameters == generate_parameters(path)
        spec0      == paths.spec[key]
        spec1      == IF parameters # <<>> THEN [spec0 EXCEPT !.parameters = parameters]
                      ELSE spec0
        spec2      == [spec1 EXCEPT !.methods = AddMethods(@, operation.methods,
                                                           to_doc(operation, heap))]
    IN  [ops |-> [acc.ops EXCEPT ![item.op] = operation],
         paths |-> [paths EXCEPT !.spec = DictSet(@, key, spec2)],
         definitions |-> defs,
         visited |-> Append(acc.visited, item)]

RECURSIVE ParseLoop(_, _, _)
ParseLoop(acc, heap, todo) ==
    IF todo = <<>> THEN acc ELSE ParseLoop(ParseStep(acc, heap, Head(todo)), heap, Tail(todo))

\* SwaggerSpec.parse_operations over what self.parent.op_paths() yields
parse_operations(descriptors, heap, traversal) ==
    ParseLoop([ops |-> descriptors, paths |-> NoPaths, definitions |-> SeedDefinitions,
               visited |-> <<>>], heap, traversal)

NoSwagger == [parent |-> FALSE, traversal |-> <<>>, called |-> "none", status |-> "-",
              op_paths_calls |-> 0, visited |-> <<>>, paths |-> NoPaths,
              definitions |-> [k \in {} |-> 0], document |-> FALSE]

\* (mutant: no check of the parent; the parse then fails on the missing parent)
HasParentUnchecked(sw) == TRUE

\* `if not api_base` in get_swagger
HasParent(sw) == sw.parent

----------------------------------------------------------------------------
(* Actions *)

Requests == {Request({}, {}, "absent")}

NoInbox == [waiting |-> FALSE, request |-> Request({}, {}, "absent"), ret |-> None]

\* A descriptor class called as Operation(callback, ...) (direct) or applied as
\* @Operation(...) (not direct).
Construct(kind, callback, resource, own, paging, direct) ==
    /\ Len(ops) < MaxOps
    /\ LET r == Operation__new__([count |-> operation_count, sets |-> sets],
                    Args(kind, callback, "NoPath", <<"GET">>, resource, own, paging), direct)
       IN  /\ ops' = Append(ops, r.self)
           /\ operation_count' = r.count
           /\ sets' = r.sets
           /\ last' = [NoLast EXCEPT !.op = "construct", !.i = Len(ops) + 1]
    /\ UNCHANGED <<cb_responses, cb_parameters, route_count, routes, inbox, static,
                 swagger>>

\* listing / create / detail / update / patch / delete: construct the descriptor
\* (always a direct call) and add the conventional responses.  delete passes
\* resource None.
Shortcut(name, callback, resource) ==
    /\ Len(ops) < MaxOps
    /\ LET res == IF name = "delete" THEN None ELSE resource
           r == Operation__new__([count |-> operation_count, sets |-> sets],
                    Args(ShortcutKind(name), callback, ShortcutPath(name),
                         <<ShortcutMethod(name)>>, res, {}, DefaultPaging), TRUE)
       IN  /\ ops' = Append(ops, r.self)
           /\ operation_count' = r.count
           /\ sets' = [r.sets EXCEPT ![r.self.responses] = AddAll(@, ShortcutResponses(name))]
           /\ last' = [NoLast EXCEPT !.op = name, !.i = Len(ops) + 1]
    /\ UNCHANGED <<cb_responses, cb_parameters, route_count, routes, inbox, static,
                 swagger>>

BindToInstance(i, instance) ==
    /\ i \in 1..Len(ops)
    /\ ops' = [ops EXCEPT ![i] = bind_to_instance(@, instance)]
    /\ last' = [NoLast EXCEPT !.op = "bind", !.i = i, !.value = instance]
    /\ UNCHANGED <<operation_count, sets, cb_responses, cb_parameters, route_count, routes, inbox, static,
                 swagger>>

Resource(i) ==
    /\ i \in 1..Len(ops)
    /\ ops' = [ops EXCEPT ![i] = ReadResource(@)]
    /\ last' = [NoLast EXCEPT !.op = "resource", !.i = i, !.value = ReadResource(ops[i]).resource]
    /\ UNCHANGED <<operation_count, sets, cb_responses, cb_parameters, route_count, routes, inbox, static,
                 swagger>>

\* Operation.to_doc: the responses set is never empty, so self.resource is read.
ToDoc(i) ==
    /\ i \in 1..Len(ops)
    /\ ops' = [ops EXCEPT ![i] = ReadResource(@)]
    /\ last' = [NoLast EXCEPT !.op = "to_doc", !.i = i,
                              !.value = ReadResource(ops[i]).resource,
                              !.doc = DocResponses(sets[ops[i].responses])]
    /\ UNCHANGED <<operation_count, sets, cb_responses, cb_parameters, route_count, routes, inbox, static,
                 swagger>>

\* A dispatch of descriptor i
Call(i, request, ret) ==
    /\ i \in 1..Len(ops)
    /\ LET r == Operation__call__(ops[i], request, ret)
       IN  /\ ops' = [ops EXCEPT ![i] = r.self]
           /\ last' = [NoLast EXCEPT !.op = "call", !.i = i, !.trace = r.trace,
                                     !.value = ret, !.out = r.result.out, !.via = r.result.via]
    /\ UNCHANGED <<operation_count, sets, cb_responses, cb_parameters, route_count, routes, inbox, static,
                 swagger>>

\* self.execute called on descriptor i with the waiting request
Execute(i) ==
    /\ i \in 1..Len(ops)
    /\ inbox.waiting
    /\ LET r == execute(ops[i], inbox.request, <<>>, inbox.ret)
       IN  /\ ops' = [ops EXCEPT ![i] = r.self]
           /\ last' = [NoLast EXCEPT !.op = "execute", !.i = i, !.trace = r.trace,
                                     !.value = inbox.ret, !.out = r.out]
    /\ inbox' = [inbox EXCEPT !.waiting = FALSE]
    /\ UNCHANGED <<operation_count, sets, cb_responses, cb_parameters, route_count, routes, static,
                 swagger>>

\* odinweb_core route(): every call takes the next route number
Route ==
    /\ Len(routes) < MaxRoutes
    /\ routes' = Append(routes, route_count)
    /\ route_count' = route_count + 1
    /\ UNCHANGED <<operation_count, ops, sets, cb_responses, cb_parameters, last, inbox, static,
                 swagger>>

\* load_static(file_name) on the SwaggerSpec
LoadStatic ==
    /\ ~static.called
    /\ LET r == load_static(static.enable_ui, static.file_name)
       IN  static' = [static EXCEPT !.called = TRUE, !.status = r.status, !.read = r.read]
    /\ UNCHANGED <<operation_count, ops, sets, cb_responses, cb_parameters, route_count, routes, last, inbox,
                 swagger>>

\* parse_operations() called on a SwaggerSpec that has a parent
ParseOperations ==
    /\ swagger.called = "none"
    /\ swagger.parent
    /\ LET r == parse_operations(ops, sets, swagger.traversal)
       IN  /\ ops' = r.ops
           /\ swagger' = [swagger EXCEPT !.called = "parse_operations", !.status = "200",
                                         !.op_paths_calls = @ + 1, !.visited = r.visited,
                                         !.paths = r.paths, !.definitions = r.definitions]
    /\ UNCHANGED <<operation_count, sets, cb_responses, cb_parameters, route_count, routes,
                   last, inbox, static>>

\* get_swagger(request): HttpError 404 without a parent, else the document with
\* the paths and definitions of parse_operations.  Were the check to let a
\* missing parent through, self.parent.op_paths would raise AttributeError.
GetSwagger ==
    /\ swagger.called = "none"
    /\ IF ~HasParent(swagger)
       THEN /\ swagger' = [swagger EXCEPT !.called = "get_swagger", !.status = "404"]
            /\ ops' = ops
       ELSE IF ~swagger.parent
       THEN /\ swagger' = [swagger EXCEPT !.called = "get_swagger",
                                          !.status = "AttributeError"]
            /\ ops' = ops
       ELSE LET r == parse_operations(ops, sets, swagger.traversal)
            IN  /\ ops' = r.ops
                /\ swagger' = [swagger EXCEPT !.called = "get_swagger", !.status = "200",
                                  !.op_paths_calls = @ + 1, !.visited = r.visited,
                                  !.paths = r.paths, !.definitions = r.definitions,
                                  !.document = TRUE]
    /\ UNCHANGED <<operation_count, sets, cb_responses, cb_parameters, route_count, routes,
                   last, inbox, static>>

----------------------------------------------------------------------------
(* Specifications *)

\* The heap and the callbacks before any descriptor exists: the documented
\* callback carries a responses set with one entry.
InitHeap == << {Resp("200", "OK")}, {Param("query", "q")} >>

InitCallbacks ==
    /\ cb_responses = [c \in Callbacks |-> IF c = "documented" THEN 1 ELSE 0]
    /\ cb_parameters = [c \in Callbacks |-> IF c = "documented" THEN 2 ELSE 0]

Resources == {None, "R0"}

\* Registration: descriptors are constructed, legacy routes numbered, documents made.
InitReg ==
    /\ InitCallbacks
    /\ sets = InitHeap
    /\ operation_count = 0
    /\ ops = <<>>
    /\ route_count = 0
    /\ routes = <<>>
    /\ last = NoLast
    /\ inbox = NoInbox
    /\ static = NoStatic
    /\ swagger = NoSwagger

NextReg ==
    \/ \E kind \in Kinds, callback \in Callbacks, direct \in BOOLEAN :
          Construct(kind, callback, None, {}, DefaultPaging, direct)
    \/ \E name \in Shortcuts, callback \in Callbacks : Shortcut(name, callback, None)
    \/ \E i \in 1..Len(ops) : ToDoc(i)
    \/ Route

SpecReg == InitReg /\ [][NextReg]_vars

\* The life of one descriptor after its construction: binding, resource reads,
\* documentation and dispatch.
Init ==
    /\ InitCallbacks
    /\ \E kind \in Kinds, resource \in Resources, own \in SUBSET HookNames :
          LET r == Operation__new__([count |-> 0, sets |-> InitHeap],
                       Args(kind, "plain", "NoPath", <<"GET">>, resource, own, DefaultPaging),
                       TRUE)
          IN  /\ ops = << r.self >>
              /\ operation_count = r.count
              /\ sets = r.sets
    /\ route_count = 0
    /\ routes = <<>>
    /\ last = NoLast
    /\ inbox = NoInbox
    /\ static = NoStatic
    /\ swagger = NoSwagger

Next ==
    \/ \E i \in 1..Len(ops), instance \in Instances : BindToInstance(i, instance)
    \/ \E i \in 1..Len(ops) : Resource(i)
    \/ \E i \in 1..Len(ops) : ToDoc(i)
    \/ \E i \in 1..Len(ops), request \in Requests, ret \in CallbackResults :
          Call(i, request, ret)

Spec == Init /\ [][Next]_vars

\* Paging: one ListOperation and the requests it executes.
MaxQuery == 3

OptInts(lo, hi) == {{}} \cup {{n} : n \in lo..hi}

MaxConfigs == {{}, {0}, {2}}

InitList ==
    /\ InitCallbacks
    /\ \E default_offset \in {0, 3}, max_offset \in MaxConfigs, max_limit \in MaxConfigs :
          LET r == Operation__new__([count |-> 0, sets |-> InitHeap],
                       Args("ListOperation", "plain", "NoPath", <<"GET">>, None, {},
                            Paging(default_offset, 50, max_offset, max_limit)),
                       TRUE)
          IN  /\ ops = << r.self >>
              /\ operation_count = r.count
              /\ sets = r.sets
    /\ route_count = 0
    /\ routes = <<>>
    /\ last = NoLast
    /\ \E offset \in OptInts(-1, MaxQuery), limit \in OptInts(-1, MaxQuery),
          bare \in BareTokens, ret \in CallbackResults :
          inbox = [waiting |-> TRUE, request |-> Request(offset, limit, bare), ret |-> ret]
    /\ static = NoStatic
    /\ swagger = NoSwagger

NextList == Execute(1)

SpecList == InitList /\ [][NextList]_vars

\* Static files: one SwaggerSpec and the file names asked of it.
MaxSegs == 3

RECURSIVE SeqsUpTo(_, _)
SeqsUpTo(S, n) ==
    IF n = 0 THEN {<<>>}
    ELSE LET shorter == SeqsUpTo(S, n - 1)
         IN  shorter \cup {Append(q, x) : q \in shorter, x \in S}

InitStatic ==
    /\ InitCallbacks
    /\ sets = InitHeap
    /\ operation_count = 0
    /\ ops = <<>>
    /\ route_count = 0
    /\ routes = <<>>
    /\ last = NoLast
    /\ inbox = NoInbox
    /\ \E enable_ui \in BOOLEAN, absolute \in BOOLEAN, segs \in SeqsUpTo(Segments, MaxSegs) :
          static = [NoStatic EXCEPT !.enable_ui = enable_ui,
                                    !.file_name = FileName(absolute, segs)]
    /\ swagger = NoSwagger

NextStatic == LoadStatic

SpecStatic == InitStatic /\ [][NextStatic]_vars

\* Documentation: a SwaggerSpec, the two descriptors its parent holds and the
\* traversal the parent's op_paths() yields.
MaxTraversal == 3

SwaggerResources == {None, "R0", "R2"}

TraversedPaths ==
    { << Literal("api"), Literal("a") >>,
      << Literal("api"), Literal("a"), PathNode("id") >>,
      << Literal("v2"), Literal("a") >>,
      << Literal("api") >> }

Bindings == {None, "api1", "api2"}

InitSwagger ==
    /\ InitCallbacks
    /\ \E resource \in SwaggerResources, binding \in Bindings :
          LET r1 == Operation__new__([count |-> 0, sets |-> InitHeap],
                        Args("Operation", "plain", "NoPath", <<"GET">>, resource, {},
                             DefaultPaging), TRUE)
              r2 == Operation__new__([count |-> r1.count, sets |-> r1.sets],
                        Args("ResourceOperation", "documented", "NoPath", <<"GET", "POST">>,
                             None, {}, DefaultPaging), TRUE)
              op2 == IF binding = None THEN r2.self ELSE bind_to_instance(r2.self, binding)
          IN  /\ ops = << r1.self, op2 >>
              /\ operation_count = r2.count
              /\ sets = r2.sets
    /\ route_count = 0
    /\ routes = <<>>
    /\ last = NoLast
    /\ inbox = NoInbox
    /\ static = NoStatic
    /\ \E parent \in BOOLEAN :
          \E traversal \in (IF parent
                            THEN SeqsUpTo([path : TraversedPaths, op : {1, 2}], MaxTraversal)
                            ELSE {<<>>}) :
             swagger = [NoSwagger EXCEPT !.parent = parent, !.traversal = traversal]

NextSwagger ==
    \/ ParseOperations
    \/ GetSwagger

SpecSwagger == InitSwagger /\ [][NextSwagger]_vars

----------------------------------------------------------------------------
(* Properties *)

Bound(i) == ops[i].binding # None

\* C1: once a descriptor is bound to a container, no bind_to_instance changes
\* its owning-container reference.
C1_BindingNeverChanges ==
    [][\A i \in 1..Len(ops) : Bound(i) => ops'[i].binding = ops[i].binding]_vars

\* The arguments the callback received in the last execute or dispatch
CallbackEvents == {k \in 1..Len(last.trace) : last.trace[k].ev = "callback"}
Passed == last.trace[The(CallbackEvents)]

\* C2: the offset and limit ListOperation.execute passes to the callback satisfy
\* offset >= 0, offset <= max_offset when max_offset is set (0 included),
\* limit >= 1, and limit <= max_limit when max_limit is set (0 included).
C2_PagingInRange ==
    last.op = "execute" =>
        LET paging == ops[last.i].paging
            offset == The(Passed.offset)
            limit  == The(Passed.limit)
        IN  /\ offset >= 0
            /\ paging.max_offset # {} => offset <= The(paging.max_offset)
            /\ limit >= 1
            /\ paging.max_limit # {} => limit <= The(paging.max_limit)

\* C3: sort keys are unique and strictly increasing in construction order,
\* whatever mix of classes, shortcuts and call forms constructed the descriptors;
\* so are the route numbers of the legacy route() calls.
C3_SortKeysIncreasing ==
    /\ \A i, j \in 1..Len(ops) : i < j => ops[i].sort_key < ops[j].sort_key
    /\ \A i \in 1..Len(ops) : ops[i].sort_key >= 0 /\ ops[i].sort_key < operation_count
    /\ \A i, j \in 1..Len(routes) : i < j => routes[i] < routes[j]

\* Two descriptors of different classes, one from a shortcut and one from the
\* decorator form, and two legacy routes
C3_Witness ==
    /\ Len(ops) = 2
    /\ ops[1].kind # ops[2].kind
    /\ ops[2].sort_key = ops[1].sort_key + 1
    /\ ops[1].url_path = "resource_id"
    /\ Len(routes) >= 2

EventsOf(ev) == {k \in 1..Len(last.trace) : last.trace[k].ev = ev}

\* C4: a dispatch runs the pre hook (if the descriptor has one) once, then the
\* callback once, then the post hook (if it has one) once, in that order; the
\* post hook receives what execute returned and the dispatch returns what the
\* post hook returns; no hook is skipped whatever the response.
C4_DispatchOrder ==
    last.op = "call" =>
        LET self    == ops[last.i]
            hasPre  == self._pre_dispatch # NoHook
            hasPost == self._post_dispatch # NoHook
            n       == Len(last.trace)
            at      == IF hasPre THEN 2 ELSE 1
        IN  /\ Cardinality(EventsOf("pre_dispatch")) = (IF hasPre THEN 1 ELSE 0)
            /\ Cardinality(EventsOf("callback")) = 1
            /\ Cardinality(EventsOf("post_dispatch")) = (IF hasPost THEN 1 ELSE 0)
            /\ n = Cardinality(EventsOf("pre_dispatch")) + 1 + Cardinality(EventsOf("post_dispatch"))
            /\ hasPre => last.trace[1].ev = "pre_dispatch"
                         /\ last.trace[1].owner = self._pre_dispatch.owner
                         /\ last.trace[at].marks = <<self._pre_dispatch.owner>>
            /\ last.trace[at].ev = "callback"
            /\ self.kind # "ListOperation" => last.out = Plain(last.value)
            /\ hasPost => /\ last.trace[n].ev = "post_dispatch"
                          /\ last.trace[n].owner = self._post_dispatch.owner
                          /\ last.trace[n].response = last.out
                          /\ last.via = <<self._post_dispatch.owner>>
            /\ ~hasPost => last.via = <<>>

\* A dispatch with both hooks whose callback returned None
C4_Witness ==
    /\ last.op = "call"
    /\ Len(last.trace) = 3
    /\ last.value = None
    /\ last.via # <<>>

\* C5: bind_to_instance fills a hook the descriptor does not carry from the
\* instance's pre_dispatch / post_dispatch, and leaves a hook it carries unchanged.
C5_BindFillsHooks ==
    [][\A instance \in Instances :
          BindToInstance(1, instance) =>
             /\ ops'[1]._pre_dispatch =
                   IF ops[1]._pre_dispatch = NoHook
                   THEN GetAttrHook(instance, "pre_dispatch") ELSE ops[1]._pre_dispatch
             /\ ops'[1]._post_dispatch =
                   IF ops[1]._post_dispatch = NoHook
                   THEN GetAttrHook(instance, "post_dispatch") ELSE ops[1]._post_dispatch]_vars

\* C6 as stated: a read of the resource yields the explicit resource if one was
\* given, otherwise the resource of the container the descriptor is bound to,
\* otherwise absent.
C6_ResourceFollowsBinding ==
    last.op = "resource" => last.value = resource_fget(ops[last.i])

\* C6 amended: the first read yields the explicit resource if one was given,
\* otherwise the resource of the container bound at that moment, otherwise
\* absent; every later read yields that same value, whatever is bound afterwards.
C6_ResourceComputedOnce ==
    [][\A i \in 1..Len(ops) :
          /\ (ops[i].resource = "unset" /\ ops'[i].resource # "unset")
                => ops'[i].resource = resource_fget(ops[i])
          /\ ops[i].resource # "unset" => ops'[i].resource = ops[i].resource
          /\ (last'.op \in {"resource", "to_doc"} /\ last'.i = i)
                => last'.value = ops'[i].resource /\ ops'[i].resource # "unset"]_vars

\* A read that returned the value cached before the descriptor was bound
C6_Witness ==
    /\ last.op = "resource"
    /\ ops[1]._resource = None
    /\ ops[1].binding = "api1"
    /\ last.value = None

Defaults(i) == {r \in sets[ops[i].responses] : r.status = "default"}

\* C7: every descriptor's response set holds exactly one default entry, the
\* 'Unhandled error' one, and so do the responses of its to_doc output.
C7_OneDefaultResponse ==
    /\ \A i \in 1..Len(ops) : Defaults(i) = {DefaultResponse}
    /\ last.op = "to_doc" =>
          /\ "default" \in DOMAIN last.doc
          /\ last.doc["default"] = "Unhandled error"
          /\ \A status \in DOMAIN last.doc :
                Cardinality({r \in sets[ops[last.i].responses] : r.status = status}) = 1

\* Two descriptors built on the callback that carries a responses set, one by
\* a shortcut, and the document of the second
C7_Witness ==
    /\ Len(ops) = 2
    /\ ops[1].callback = "documented" /\ ops[2].callback = "documented"
    /\ ops[1].responses = ops[2].responses
    /\ ops[1].url_path = "resource_id"
    /\ last.op = "to_doc" /\ last.i = 2

TruthyTokens == {"true", "TRUE", "1", "yes"}

\* C8: ListOperation.execute returns None for a None callback result; otherwise
\* the items (the first element of a 2-tuple, else the whole result) unwrapped
\* when bare is truthy, and else a Listing of (items, limit, offset, total count)
\* with the limit and offset passed to the callback and the 2-tuple's second
\* element, or None, as total count.
C8_ListingEnvelope ==
    last.op = "execute" =>
        LET ret   == last.value
            pair  == ret = "(xs,10)"
            items == IF pair THEN "xs" ELSE ret
        IN  /\ ret = None => last.out = Plain(None)
            /\ (ret # None /\ inbox.request.bare \in TruthyTokens) =>
                  ~last.out.listing /\ last.out.results = items
            /\ (ret # None /\ inbox.request.bare \notin TruthyTokens) =>
                  /\ last.out.listing
                  /\ last.out.results = items
                  /\ last.out.limit = The(Passed.limit)
                  /\ last.out.offset = The(Passed.offset)
                  /\ last.out.total_count = (IF pair THEN "10" ELSE None)

\* An envelope with a total count and a clamped limit, from a request whose bare
\* is given but not truthy
C8_Witness ==
    /\ last.op = "execute"
    /\ last.out.listing
    /\ last.out.total_count = "10"
    /\ inbox.request.bare = "no"
    /\ inbox.request.limit = {3}
    /\ last.out.limit = 2

Statuses(i) == {r.status : r \in sets[ops[i].responses]}

\* C9 as stated: the delete shortcut's descriptor declares exactly two response
\* entries, 204 and 404.
C9_DeleteTwoResponses ==
    last.op = "delete" => Statuses(last.i) = {"204", "404"}

\* C9 amended: the delete shortcut's descriptor declares the 204 and 404 entries
\* and the default 'Unhandled error' entry; built on a callback that carries no
\* responses of its own, these three are all its entries.
C9_DeleteThreeResponses ==
    last.op = "delete" =>
        /\ {"204", "404", "default"} \subseteq Statuses(last.i)
        /\ cb_responses[ops[last.i].callback] = 0 =>
              sets[ops[last.i].responses] =
                 {Resp("204", "{name} has been deleted."), Resp("404", "Not found"),
                  DefaultResponse}

C9_Witness ==
    /\ last.op = "delete"
    /\ ops[last.i].callback = "plain"
    /\ ops[last.i].methods = <<"DELETE">>

\* A path lies inside the static directory
InsideStatic(segs) ==
    Len(segs) > Len(StaticPath) /\ SubSeq(segs, 1, Len(StaticPath)) = StaticPath

\* C10: load_static never reads a file whose resolved path lies outside the
\* static directory: such a name ends in a 404; and with the UI disabled every
\* name ends in a 404 without a read.
C10_NeverReadsOutside ==
    static.called =>
        /\ \A k \in 1..Len(static.read) : InsideStatic(static.read[k])
        /\ ~InsideStatic(AbsPath(PathJoin(StaticPath, static.file_name)))
              => static.status = "404" /\ static.read = <<>>
        /\ ~static.enable_ui => static.status = "404" /\ static.read = <<>>

\* C15: in every dispatch, a pre hook that was taken from a container instance
\* belongs to the instance the callback receives as its first argument.
C15_HookOwnerIsBinding ==
    last.op = "call" =>
        \A k \in EventsOf("pre_dispatch") :
            last.trace[k].owner \in Instances => last.trace[k].owner = Passed.owner

\* C14: constructing a descriptor leaves the responses and parameters sets the
\* callback carries unchanged, and no descriptor shares its responses or
\* parameters set with its callback or with another descriptor.
C14_NoSharedSets ==
    [][/\ \A c \in Callbacks :
            /\ cb_responses[c] # 0 => sets'[cb_responses[c]] = sets[cb_responses[c]]
            /\ cb_parameters[c] # 0 => sets'[cb_parameters[c]] = sets[cb_parameters[c]]
       /\ \A i \in 1..Len(ops') :
            /\ \A c \in Callbacks :
                  ops'[i].responses # cb_responses[c] /\ ops'[i].parameters # cb_parameters[c]
            /\ \A j \in 1..Len(ops') :
                  i # j => /\ ops'[i].responses # ops'[j].responses
                           /\ ops'[i].parameters # ops'[j].parameters]_vars

\* parse_operations has run (directly or inside get_swagger)
Parsed == swagger.status = "200"

\* The resource the descriptor of the k-th traversed pair resolves to, and the
\* key of its path
TraversedResource(k) == ops[swagger.traversal[k].op].resource
TraversedKey(k) == UrlPathStr(Strip(swagger.traversal[k].path))
Traversed == 1..Len(swagger.traversal)
Max(S) == CHOOSE x \in S : \A y \in S : y <= x
Min(S) == CHOOSE x \in S : \A y \in S : x <= y

\* C11: the definitions of parse_operations hold the Error and Listing schemas
\* and exactly one entry per resource name among the traversed descriptors'
\* resolved resources, that of the resource traversed last under the name;
\* descriptors without a resource add nothing.
C11_Definitions ==
    Parsed =>
        LET named == {k \in Traversed : TraversedResource(k) # None}
            names == {ResourceName(TraversedResource(k)) : k \in named}
        IN  /\ DOMAIN swagger.definitions = {"Error", "Listing"} \cup names
            /\ swagger.definitions["Error"].properties = "Error"
            /\ swagger.definitions["Listing"].properties = "Listing"
            /\ \A n \in names :
                  LET k == Max({j \in named : ResourceName(TraversedResource(j)) = n})
                  IN  swagger.definitions[n].properties = TraversedResource(k)

\* Two resource types of one name traversed, R0 before R1: the one entry under
\* the name is that of R1
C11_Witness ==
    /\ Parsed
    /\ Len(swagger.traversal) = 3
    /\ TraversedResource(1) = "R0"
    /\ TraversedResource(2) = "R1"
    /\ swagger.definitions["Item"].properties = "R1"
    /\ Cardinality(DOMAIN swagger.definitions) = 3

\* C12: parse_operations iterates the traversal once; the keys of its paths are
\* the traversed paths without their first segment, in order of first
\* occurrence; under each key every method of every descriptor traversed there
\* appears lower-cased with a to_doc output of such a descriptor, a path
\* traversed again keeping its place and accumulating methods.
C12_Paths ==
    Parsed =>
        LET keys  == {TraversedKey(k) : k \in Traversed}
            first(key) == Min({k \in Traversed : TraversedKey(k) = key})
            order == swagger.paths.order
            at(key) == {k \in Traversed : TraversedKey(k) = key}
            lowered(k) == {MethodLower(ops[swagger.traversal[k].op].methods[x]) :
                              x \in 1..Len(ops[swagger.traversal[k].op].methods)}
        IN  /\ swagger.op_paths_calls = 1
            /\ swagger.visited = swagger.traversal
            /\ DOMAIN swagger.paths.spec = keys
            /\ {order[x] : x \in 1..Len(order)} = keys
            /\ Len(order) = Cardinality(keys)
            /\ \A x, y \in 1..Len(order) : x < y => first(order[x]) < first(order[y])
            /\ \A key \in keys :
                  /\ DOMAIN swagger.paths.spec[key].methods = UNION {lowered(k) : k \in at(key)}
                  /\ \A method \in DOMAIN swagger.paths.spec[key].methods :
                        \E k \in at(key) :
                           /\ method \in lowered(k)
                           /\ swagger.paths.spec[key].methods[method]
                                 = to_doc(ops[swagger.traversal[k].op], sets)

\* A path traversed first and third, with another between, by two descriptors
\* through different parents' prefixes
C12_Witness ==
    /\ Parsed
    /\ Len(swagger.traversal) = 3
    /\ TraversedKey(1) = TraversedKey(3)
    /\ TraversedKey(1) # TraversedKey(2)
    /\ swagger.traversal[1].path # swagger.traversal[3].path
    /\ swagger.traversal[1].op = 2 /\ swagger.traversal[3].op = 1
    /\ swagger.paths.order = << TraversedKey(1), TraversedKey(2) >>
    /\ DOMAIN swagger.paths.spec[TraversedKey(1)].methods = {"get", "post"}

\* C13: get_swagger without a parent ends in a 404 HttpError, runs no
\* parse_operations and makes no document; with a parent it returns the
\* document holding the paths and definitions parse_operations made.
C13_GetSwagger ==
    swagger.called = "get_swagger" =>
        /\ ~swagger.parent =>
              /\ swagger.status = "404"
              /\ swagger.op_paths_calls = 0
              /\ swagger.visited = <<>>
              /\ ~swagger.document
        /\ swagger.parent =>
              /\ swagger.status = "200"
              /\ swagger.document
              /\ swagger.op_paths_calls = 1
              /\ swagger.paths = parse_operations(ops, sets, swagger.traversal).paths
              /\ swagger.definitions = parse_operations(ops, sets, swagger.traversal).definitions
              /\ {"Error", "Listing"} \subseteq DOMAIN swagger.definitions

C13_Witness ==
    /\ swagger.called = "get_swagger"
    /\ ~swagger.parent
    /\ swagger.status = "404"
    /\ Len(ops) = 2

====
